---------------------------- MODULE Spec2Model ----------------------------
(***************************************************************************)
(* Model of the LINE HR bot of src/server.py: the webhook's per-event      *)
(* routing, the quitting-request dialogue, the cancellation dialogue, the  *)
(* HR commands, the Apps Script gateway call and the FAQ fallback.         *)
(*                                                                         *)
(* A text is a sequence of characters; a character is a one-element token. *)
(* Latin characters, digits and punctuation stand for themselves.  A       *)
(* Japanese character is written as the token "jp:<reading>", the          *)
(* full-width parentheses as "fw(" and "fw)", and the ideographic space    *)
(* U+3000 as "fw:sp".                                                      *)
(***************************************************************************)
EXTENDS Integers, Sequences, FiniteSets, TLC

(***************************************************************************)
(* Characters and the string primitives of Python the code relies on       *)
(***************************************************************************)

UpperCase == {"A","B","C","D","E","F","G","H","I","J","K","L","M",
              "N","O","P","Q","R","S","T","U","V","W","X","Y","Z"}

\* str.lower() on one character
LowerChar(c) ==
    IF c \notin UpperCase THEN c
    ELSE CASE c = "A" -> "a" [] c = "B" -> "b" [] c = "C" -> "c" [] c = "D" -> "d"
           [] c = "E" -> "e" [] c = "F" -> "f" [] c = "G" -> "g" [] c = "H" -> "h"
           [] c = "I" -> "i" [] c = "J" -> "j" [] c = "K" -> "k" [] c = "L" -> "l"
           [] c = "M" -> "m" [] c = "N" -> "n" [] c = "O" -> "o" [] c = "P" -> "p"
           [] c = "Q" -> "q" [] c = "R" -> "r" [] c = "S" -> "s" [] c = "T" -> "t"
           [] c = "U" -> "u" [] c = "V" -> "v" [] c = "W" -> "w" [] c = "X" -> "x"
           [] c = "Y" -> "y" [] c = "Z" -> "z"

\* str.lower()
Lower(s) == [i \in 1..Len(s) |-> LowerChar(s[i])]

\* the characters str.strip() removes
WhiteSpace == {" ", "\t", "\n", "fw:sp"}

RECURSIVE LStrip(_)
LStrip(s) == IF s # <<>> /\ Head(s) \in WhiteSpace THEN LStrip(Tail(s)) ELSE s

RECURSIVE RStrip(_)
RStrip(s) ==
    IF s # <<>> /\ s[Len(s)] \in WhiteSpace
    THEN RStrip(SubSeq(s, 1, Len(s) - 1)) ELSE s

\* str.strip()
Strip(s) == RStrip(LStrip(s))

\* str.startswith(p)
StartsWith(s, p) == Len(s) >= Len(p) /\ SubSeq(s, 1, Len(p)) = p

\* p in s, for strings
Contains(s, p) ==
    \E i \in 1..(Len(s) - Len(p) + 1) : SubSeq(s, i, i + Len(p) - 1) = p

\* str.split(): the maximal runs of non-whitespace characters
RECURSIVE SplitWords(_)
SplitWords(s) ==
    LET t == LStrip(s)
        n == IF \E i \in 1..Len(t) : t[i] \in WhiteSpace
             THEN (CHOOSE i \in 1..Len(t) :
                      /\ t[i] \in WhiteSpace
                      /\ \A j \in 1..(i - 1) : t[j] \notin WhiteSpace) - 1
             ELSE Len(t)
    IN  IF t = <<>> THEN <<>>
        ELSE <<SubSeq(t, 1, n)>> \o SplitWords(SubSeq(t, n + 1, Len(t)))

\* str.split(sep) for a one-character separator: empty fields are kept
RECURSIVE SplitOn(_, _)
SplitOn(s, sep) ==
    IF \E i \in 1..Len(s) : s[i] = sep
    THEN LET n == CHOOSE i \in 1..Len(s) :
                     s[i] = sep /\ \A j \in 1..(i - 1) : s[j] # sep
         IN  <<SubSeq(s, 1, n - 1)>> \o SplitOn(SubSeq(s, n + 1, Len(s)), sep)
    ELSE <<s>>

\* " ".join(words)
RECURSIVE JoinSpace(_)
JoinSpace(ws) ==
    IF ws = <<>> THEN <<>>
    ELSE IF Len(ws) = 1 THEN ws[1]
    ELSE ws[1] \o <<" ">> \o JoinSpace(Tail(ws))

\* the characters the regular expression class \d matches
Digits == {"0","1","2","3","4","5","6","7","8","9",
           "fw:0","fw:1","fw:2","fw:3","fw:4","fw:5","fw:6","fw:7","fw:8","fw:9"}


(***************************************************************************)
(* Vocabularies and validators (src/server.py, lines 129-162)              *)
(***************************************************************************)

\* "quit", "resign", 退職, 辞める, やめる
QUIT_TRIGGERS ==
    { <<"q","u","i","t">>,
      <<"r","e","s","i","g","n">>,
      <<"jp:TAI","jp:SHOKU">>,
      <<"jp:JI","jp:me","jp:ru">>,
      <<"jp:ya","jp:me","jp:ru">> }

\* 退職申請キャンセル, 退職キャンセル, "cancel quit", "cancel quit request"
CANCEL_FLOW_TRIGGERS ==
    { <<"jp:TAI","jp:SHOKU","jp:SHIN","jp:SEI","jp:kKI","jp:kya","jp:kN","jp:kSE","jp:kRU">>,
      <<"jp:TAI","jp:SHOKU","jp:kKI","jp:kya","jp:kN","jp:kSE","jp:kRU">>,
      <<"c","a","n","c","e","l"," ","q","u","i","t">>,
      <<"c","a","n","c","e","l"," ","q","u","i","t"," ","r","e","q","u","e","s","t">> }

\* "cancel", キャンセル, 中止, やめる
CANCEL_WORDS ==
    { <<"c","a","n","c","e","l">>,
      <<"jp:kKI","jp:kya","jp:kN","jp:kSE","jp:kRU">>,
      <<"jp:CHUU","jp:SHI">>,
      <<"jp:ya","jp:me","jp:ru">> }

is_quit_trigger(text) == Lower(Strip(text)) \in QUIT_TRIGGERS

is_cancel_flow_trigger(text) == Lower(Strip(text)) \in CANCEL_FLOW_TRIGGERS

\* is_cancel_word without lower(): the words match in lower case only
is_cancel_word_case_sensitive(text) == Strip(text) \in CANCEL_WORDS

is_cancel_word(text) == Lower(Strip(text)) \in CANCEL_WORDS

\* is_valid_staff_id with the pattern ^\d+$: any number of digits
is_valid_staff_id_any_length(text) ==
    LET t == Strip(text)
    IN  Len(t) >= 1 /\ \A i \in 1..Len(t) : t[i] \in Digits

\* re.match(r"^\d{3,6}$", text.strip())
is_valid_staff_id(text) ==
    LET t == Strip(text)
    IN  /\ Len(t) >= 3
        /\ Len(t) <= 6
        /\ \A i \in 1..Len(t) : t[i] \in Digits

\* is_valid_iso_date with the pattern ^[\d-]{10}$: ten digits or dashes
is_valid_iso_date_any_order(text) ==
    LET t == Strip(text)
    IN  Len(t) = 10 /\ \A i \in 1..Len(t) : t[i] \in Digits \cup {"-"}

\* re.match(r"^\d{4}-\d{2}-\d{2}$", text.strip())
is_valid_iso_date(text) ==
    LET t == Strip(text)
    IN  /\ Len(t) = 10
        /\ \A i \in {1, 2, 3, 4, 6, 7, 9, 10} : t[i] \in Digits
        /\ t[5] = "-"
        /\ t[8] = "-"

\* the reason buttons: 転職（Job change）, 家庭都合（Family）, 学業（Study）,
\* 健康（Health）, 契約満了（End of contract）, その他（Other）
LabelJobChange ==
    <<"jp:TEN","jp:SHOKU","fw(","J","o","b"," ","c","h","a","n","g","e","fw)">>

LabelFamily ==
    <<"jp:KA","jp:TEI","jp:TO","jp:GOU","fw(","F","a","m","i","l","y","fw)">>

LabelStudy == <<"jp:GAKU","jp:GYOU","fw(","S","t","u","d","y","fw)">>

LabelHealth == <<"jp:KEN","jp:KOU","fw(","H","e","a","l","t","h","fw)">>

LabelEndOfContract ==
    <<"jp:KEI","jp:YAKU","jp:MAN","jp:RYOU","fw(",
      "E","n","d"," ","o","f"," ","c","o","n","t","r","a","c","t","fw)">>

LabelOther == <<"jp:so","jp:no","jp:TA","fw(","O","t","h","e","r","fw)">>

REASON_JP ==
    <<LabelJobChange, LabelFamily, LabelStudy, LabelHealth,
      LabelEndOfContract, LabelOther>>

ReasonOther == <<"O","t","h","e","r">>

REASON_MAP ==
    (LabelJobChange :> <<"J","o","b"," ","c","h","a","n","g","e">>)
    @@ (LabelFamily :> <<"F","a","m","i","l","y"," ","r","e","a","s","o","n","s">>)
    @@ (LabelStudy :> <<"S","t","u","d","y">>)
    @@ (LabelHealth :> <<"H","e","a","l","t","h">>)
    @@ (LabelEndOfContract :>
           <<"E","n","d"," ","o","f"," ","c","o","n","t","r","a","c","t">>)
    @@ (LabelOther :> ReasonOther)

\* the buttons of the confirmation steps: キャンセル（Cancel）, 送信（Submit）,
\* はい（Yes）, いいえ（No）
ButtonCancel ==
    <<"jp:kKI","jp:kya","jp:kN","jp:kSE","jp:kRU","fw(","C","a","n","c","e","l","fw)">>

ButtonSubmit == <<"jp:SOU","jp:SHINrai","fw(","S","u","b","m","i","t","fw)">>

ButtonYes == <<"jp:ha","jp:i","fw(","Y","e","s","fw)">>

ButtonNo == <<"jp:i","jp:i","jp:e","fw(","N","o","fw)">>

\* "none", なし, 無し, "no": the comments stored as the empty comment
NONE_TOKENS ==
    { <<"n","o","n","e">>, <<"jp:na","jp:shi">>, <<"jp:MU","jp:shi">>, <<"n","o">> }

\* the prefixes of an HR command
HR_PREFIXES ==
    { <<"a","p","p","r","o","v","e"," ">>,
      <<"r","e","j","e","c","t"," ">>,
      <<"c","a","n","c","e","l"," ">> }

HR_VERBS ==
    { <<"a","p","p","r","o","v","e">>, <<"r","e","j","e","c","t">>,
      <<"c","a","n","c","e","l">> }

\* user_text.lower().startswith(("approve ", "reject ", "cancel "))
is_hr_prefix(text) == \E p \in HR_PREFIXES : StartsWith(Lower(text), p)

\* the group activation prefix "!hr"
ACTIVATION_PREFIX == <<"!","h","r">>

(***************************************************************************)
(* Python dictionaries are functions; a missing key is a key outside the   *)
(* domain.                                                                 *)
(***************************************************************************)

EmptyDict == [k \in {} |-> k]

\* d.get(k, default)
Get(d, k, default) == IF k \in DOMAIN d THEN d[k] ELSE default

\* d[k] = v
Put(d, k, v) == [x \in (DOMAIN d) \cup {k} |-> IF x = k THEN v ELSE d[x]]

\* a pop that empties the dictionary
Pop_clear(d, k) == EmptyDict

\* d.pop(k, None)
Pop(d, k) == [x \in (DOMAIN d) \ {k} |-> d[x]]

(***************************************************************************)
(* HR command security (src/server.py, lines 168-191)                      *)
(***************************************************************************)

\* the ids of the allow-list: the non-empty stripped fields of the variable
allowed_ids(allow_env) ==
    LET fields == SplitOn(Strip(allow_env), ",")
    IN  {Strip(fields[i]) : i \in 1..Len(fields)} \ {<<>>}

\* is_hr_user failing open: without an allow-list every sender with an id is HR
is_hr_user_fail_open(line_user_id, allow_env) ==
    IF Strip(allow_env) = <<>> THEN TRUE
    ELSE line_user_id \in allowed_ids(allow_env)

is_hr_user(line_user_id, allow_env) ==
    IF Strip(allow_env) = <<>> THEN FALSE
    ELSE line_user_id \in allowed_ids(allow_env)

\* None is [ok |-> FALSE]
parse_hr_command(text) ==
    LET parts == SplitWords(Strip(text))
    IN  IF Len(parts) < 2 THEN [ok |-> FALSE]
        ELSE LET cmd == Lower(parts[1])
                 req_id == Strip(parts[2])
                 comment == Strip(JoinSpace(SubSeq(parts, 3, Len(parts))))
             IN  IF cmd \notin HR_VERBS THEN [ok |-> FALSE]
                 ELSE IF req_id = <<>> THEN [ok |-> FALSE]
                 ELSE [ok |-> TRUE, cmd |-> cmd, req_id |-> req_id,
                       comment |-> comment]

action_map(cmd) ==
    CASE cmd = <<"a","p","p","r","o","v","e">> -> "approveQuittingRequest"
      [] cmd = <<"r","e","j","e","c","t">> -> "rejectQuittingRequest"
      [] cmd = <<"c","a","n","c","e","l">> -> "cancelRequestById"

ADMIN_ACTIONS ==
    {"approveQuittingRequest", "rejectQuittingRequest", "cancelRequestById"}

(***************************************************************************)
(* Apps Script call (src/server.py, lines 105-121)                         *)
(*                                                                         *)
(* What the endpoint does with one request is an input of the call:        *)
(*   [kind |-> "exception"]  requests.post raises (refused, timeout, DNS)  *)
(*   [kind |-> "text"]       the body is not JSON                          *)
(*   [kind |-> "json", isdict |-> TRUE, value |-> d]   a JSON object       *)
(*   [kind |-> "json", isdict |-> FALSE]   JSON that is no object          *)
(*                                         (null, a list, a string)        *)
(* The result is what call_apps_script returns: [isdict, value].           *)
(***************************************************************************)

RequestId1 == <<"R","1">>

RequestId2 == <<"R","-","2","0">>

ErrNotFound == <<"N","O","T","_","F","O","U","N","D">>

GatewayResponses ==
    { [kind |-> "exception"],
      [kind |-> "text"],
      [kind |-> "json", isdict |-> FALSE],
      [kind |-> "json", isdict |-> TRUE,
       value |-> ("ok" :> TRUE) @@ ("requestId" :> RequestId1)],
      [kind |-> "json", isdict |-> TRUE,
       value |-> ("ok" :> TRUE) @@ ("requestId" :> RequestId2)],
      [kind |-> "json", isdict |-> TRUE,
       value |-> ("ok" :> TRUE) @@ ("id" :> RequestId1)],
      [kind |-> "json", isdict |-> TRUE,
       value |-> ("ok" :> FALSE) @@ ("error" :> ErrNotFound)],
      [kind |-> "json", isdict |-> TRUE, value |-> EmptyDict] }

\* the request leaves the process only when the endpoint is configured
gateway_called(url_env) == Strip(url_env) # <<>>

call_apps_script(url_env, response) ==
    IF ~gateway_called(url_env)
    THEN [isdict |-> TRUE,
          value |-> ("ok" :> FALSE) @@ ("error" :> <<"MISSING_ENV">>)]
    ELSE IF response.kind = "exception"
    THEN [isdict |-> TRUE,
          value |-> ("ok" :> FALSE) @@ ("error" :> <<"REQUEST_FAILED">>)
                    @@ ("detail" :> <<"cause">>)]
    ELSE IF response.kind = "text"
    THEN [isdict |-> TRUE,
          value |-> ("ok" :> FALSE) @@ ("error" :> <<"NON_JSON">>)
                    @@ ("text" :> <<"body">>)]
    ELSE IF response.isdict
    THEN [isdict |-> TRUE, value |-> response.value]
    ELSE [isdict |-> FALSE]

\* result.get(...) raises AttributeError when the result is no dict
result_raises(result) == ~result.isdict

\* result.get("ok"), as a condition
result_ok(result) == result.isdict /\ Get(result.value, "ok", FALSE)

(***************************************************************************)
(* FAQ (src/server.py, lines 21-63)                                        *)
(***************************************************************************)

JpChars ==
    {"jp:TAI","jp:SHOKU","jp:JI","jp:me","jp:ru","jp:ya","jp:SHIN","jp:SEI",
     "jp:kKI","jp:kya","jp:kN","jp:kSE","jp:kRU","jp:CHUU","jp:SHI","jp:TEN",
     "jp:KA","jp:TEI","jp:TO","jp:GOU","jp:GAKU","jp:GYOU","jp:KEN","jp:KOU",
     "jp:KEI","jp:YAKU","jp:MAN","jp:RYOU","jp:so","jp:no","jp:TA","jp:SOU",
     "jp:SHINrai","jp:ha","jp:i","jp:e","jp:na","jp:shi","jp:MU","jp:KYUU",
     "jp:RYOUkin","jp:BI"}

detect_language(text) == IF \E i \in 1..Len(text) : text[i] \in JpChars THEN "jp" ELSE "en"

\* the rows of the sheet after the header row: key, en_q, en_a, jp_q, jp_a;
\* 給料日 is the Japanese question of the first rows
SHEET_ROWS ==
    << << <<"P","a","y",","," ","s","a","l","a","r","y"," ">>,
          <<"W","h","e","n"," ","p","a","i","d">>,
          <<"a","n","s","E","1">>,
          <<"jp:KYUU","jp:RYOUkin","jp:BI">>,
          <<"a","n","s","J","1">> >>,
       << <<"o","n","l","y","4">>, <<"q">>, <<"a">>, <<"j">> >>,
       << <<",","p","a","y","s","l","i","p">>,
          <<"s","l","i","p","?">>,
          <<" ","a","n","s","E","2">>,
          <<"jp:KYUU","jp:RYOUkin","jp:BI">>,
          <<"a","n","s","J","2">> >>,
       << <<>>,
          <<"H","e","l","l","o">>,
          <<"a","n","s","E","3">>,
          <<>>,
          <<>> >> >>

\* load_faq: rows of fewer than five columns are skipped
RECURSIVE load_faq(_)
load_faq(rows) ==
    IF rows = <<>> THEN <<>>
    ELSE LET row == Head(rows)
         IN  IF Len(row) >= 5
             THEN << [key |-> Strip(Lower(row[1])),
                      en_q |-> Strip(Lower(row[2])),
                      en_a |-> Strip(row[3]),
                      jp_q |-> Strip(row[4]),
                      jp_a |-> Strip(row[5])] >> \o load_faq(Tail(rows))
             ELSE load_faq(Tail(rows))

FAQ == load_faq(SHEET_ROWS)

\* faq_item_matches without the test of the question
faq_item_matches_keys_only(item, t, lang) ==
    LET keys == SplitOn(item.key, ",")
    IN  \E i \in 1..Len(keys) :
            Strip(keys[i]) # <<>> /\ Contains(t, Strip(keys[i]))

\* whether an entry answers the lower-cased text t in language lang
faq_item_matches(item, t, lang) ==
    LET keys == SplitOn(item.key, ",")
        q == Strip(Lower(IF lang = "jp" THEN item.jp_q ELSE item.en_q))
    IN  \/ \E i \in 1..Len(keys) :
              Strip(keys[i]) # <<>> /\ Contains(t, Strip(keys[i]))
        \/ q # <<>> /\ Contains(t, q)

\* None is <<>>, an answer a is <<a>>
RECURSIVE find_in(_, _, _)
find_in(table, t, lang) ==
    IF table = <<>> THEN <<>>
    ELSE IF faq_item_matches(Head(table), t, lang)
    THEN << IF lang = "jp" THEN Head(table).jp_a ELSE Head(table).en_a >>
    ELSE find_in(Tail(table), t, lang)

find_faq(text) == find_in(FAQ, Lower(text), detect_language(text))

(***************************************************************************)
(* The state                                                               *)
(***************************************************************************)

VARIABLES
    USER_STATE,        \* the session dictionary: user id -> session dictionary
    HR_LINE_USER_IDS,  \* the environment variable read by is_hr_user
    APPS_SCRIPT_URL,   \* the environment variable read by call_apps_script
    pc,                \* "idle": between two events; "handled": an event was handled
    event,             \* the event that was handled (NoEvent when idle)
    before,            \* history: USER_STATE when that event arrived
    replies,           \* the calls of line_reply made for that event
    calls,             \* the requests sent to the Apps Script endpoint for it
    raised,            \* whether handling it ended in an uncaught exception
    typed,             \* history: per user, the texts the current flow accepted
    waiting            \* the invocation that waits for the endpoint at line 396

vars ==
    <<USER_STATE, HR_LINE_USER_IDS, APPS_SCRIPT_URL, pc, event, before,
      replies, calls, raised, typed, waiting>>

U1 == <<"U","1">>

U2 == <<"U","2">>

\* event.get("source", {}).get("userId") is None
NoUser == <<>>

UserIds == {U1, U2}

NoEvent == [type |-> "none"]

(***************************************************************************)
(* The messages of the model                                               *)
(***************************************************************************)

TxtQuit == <<"q","u","i","t">>

TxtCancel == <<"c","a","n","c","e","l">>

TxtStaff == <<"2","3","3","8">>

TxtStaff6 == <<"1","2","3","4","5","6">>

TxtDate == <<"2","0","2","6","-","0","3","-","3","1">>

TxtDate2 == <<"2","0","2","7","-","1","2","-","0","1">>

TxtHello == <<"h","e","l","l","o">>

TxtApprove == <<"a","p","p","r","o","v","e"," ","R","1">>

\* the length of the long comment of the model
LongLen == 301

TxtLong == [i \in 1..LongLen |-> "x"]

\* what the first user sends in a direct chat
Texts1 ==
    << TxtQuit,
      <<" ","R","e","s","i","g","n"," ">>,
      <<"jp:TAI","jp:SHOKU">>,
      <<"jp:ya","jp:me","jp:ru">>,
      TxtCancel,
      <<"C","a","n","c","e","l","\n">>,
      <<"jp:kKI","jp:kya","jp:kN","jp:kSE","jp:kRU">>,
      <<"jp:CHUU","jp:SHI">>,
      <<"c","a","n","c","e","l"," ","q","u","i","t">>,
      <<"C","a","n","c","e","l"," ","q","u","i","t"," ","r","e","q","u","e","s","t">>,
      <<"jp:TAI","jp:SHOKU","jp:kKI","jp:kya","jp:kN","jp:kSE","jp:kRU">>,
      <<"jp:TAI","jp:SHOKU","jp:SHIN","jp:SEI","jp:kKI","jp:kya","jp:kN","jp:kSE","jp:kRU">>,
      TxtApprove,
      <<"R","e","j","e","c","t"," "," ","R","1"," ","t","o","o"," ","l","a","t","e">>,
      <<"c","a","n","c","e","l"," ","R","1">>,
      TxtStaff,
      <<"1","2">>,
      <<"1","2","3","4","5","6","7">>,
      <<"2","3","a","8">>,
      TxtDate,
      <<"3","1","-","0","3","-","2","0","2","6">>,
      <<"2","0","2","6","-","3","-","3","1">>,
      LabelJobChange, LabelFamily, LabelStudy, LabelHealth,
      LabelEndOfContract, LabelOther,
      <<"1">>, <<"6">>,
      ButtonCancel, ButtonSubmit, ButtonYes, ButtonNo,
      <<"N","o","n","e">>,
      <<"jp:na","jp:shi">>,
      TxtHello,
      TxtLong,
      <<"m","y"," ","S","a","l","a","r","y">>,
      <<"W","h","e","n"," ","p","a","i","d"," ","p","a","y","s","l","i","p">>,
      <<"jp:KYUU","jp:RYOUkin","jp:BI">>,
      <<" "," ">> >>

\* what the second user sends in a direct chat
Texts2 ==
    << TxtQuit, TxtCancel, TxtStaff6, TxtDate2, LabelFamily, ButtonSubmit, TxtHello,
       TxtApprove >>

\* what a sender without user id sends
Texts0 ==
    << TxtQuit, TxtCancel, TxtApprove, TxtStaff, TxtHello,
       <<"jp:TAI","jp:SHOKU","jp:kKI","jp:kya","jp:kN","jp:kSE","jp:kRU">> >>

\* the texts sent in a group or a room after the activation prefix
GroupPayloads ==
    << TxtQuit, TxtCancel, TxtStaff, TxtDate, LabelJobChange, LabelOther,
      ButtonSubmit, TxtApprove, TxtHello, <<"N","o","n","e">> >>

\* the texts of a group or a room
GroupTexts ==
    [i \in 1..Len(GroupPayloads) |-> <<"!","h","r"," ">> \o GroupPayloads[i]]
    \o << <<"!","H","R">> \o TxtQuit, <<"!","H","R">> \o TxtStaff,
          <<"!","h","r">>, <<" ","!","H","r"," ">>,
          TxtQuit, TxtCancel, TxtStaff, TxtApprove, TxtHello, ButtonSubmit,
          <<"h","r"," ","q","u","i","t">> >>

TextEvent(source, userId, text, replyToken) ==
    [type |-> "message", mtype |-> "text", source |-> source,
     userId |-> userId, text |-> text, replyToken |-> replyToken]

\* one event per text of the sequence
TextEvents(source, userId, texts, replyToken) ==
    [i \in 1..Len(texts) |-> TextEvent(source, userId, texts[i], replyToken)]

\* the events of the model, numbered
Events ==
    TextEvents("user", U1, Texts1, TRUE)
    \o TextEvents("user", U2, Texts2, TRUE)
    \o TextEvents("user", NoUser, Texts0, TRUE)
    \o TextEvents("group", U1, GroupTexts, TRUE)
    \o TextEvents("room", NoUser, <<TxtQuit, <<"!","h","r">>, <<"!","h","r"," ">> \o TxtQuit,
                                    <<"!","h","r"," ">> \o TxtApprove>>, TRUE)
    \o TextEvents("user", U1, <<TxtQuit, TxtCancel, TxtStaff>>, FALSE)
    \o << [type |-> "message", mtype |-> "image", source |-> "user",
           userId |-> U1, text |-> <<>>, replyToken |-> TRUE],
          [type |-> "follow", mtype |-> "none", source |-> "user",
           userId |-> U1, text |-> <<>>, replyToken |-> TRUE] >>

EventIds == 1..Len(Events)

\* the values of the environment the model starts from:
\* <<HR_LINE_USER_IDS, APPS_SCRIPT_URL>>
Environments ==
    { << <<>>, <<"u","r","l">> >>,
      << <<" ","U","1"," ",",",",","U","9">>, <<"u","r","l">> >>,
      << <<" ">>, <<" ">> >> }

(***************************************************************************)
(* The webhook (src/server.py, lines 197-421), one event at a time         *)
(***************************************************************************)

\* passes_guards without the group protection
passes_guards_no_prefix(e) ==
    /\ e.type = "message"
    /\ e.mtype = "text"
    /\ e.replyToken
    /\ Strip(e.text) # <<>>

\* the guards before the routing: a text message with a reply token and a
\* non-empty stripped text, and in a group or room the activation prefix
passes_guards(e) ==
    /\ e.type = "message"
    /\ e.mtype = "text"
    /\ e.replyToken
    /\ Strip(e.text) # <<>>
    /\ e.source # "user" => StartsWith(Lower(Strip(e.text)), ACTIVATION_PREFIX)

\* user_text when the routing starts
user_text(e) ==
    IF e.source # "user"
    THEN Strip(SubSeq(Strip(e.text), Len(ACTIVATION_PREFIX) + 1, Len(Strip(e.text))))
    ELSE Strip(e.text)

\* comment stored for a text (line 367-369)
comment_of(text) == IF Lower(text) \in NONE_TOKENS THEN <<>> ELSE text

\* what the predicates of the code say of a text
text_facts(t) ==
    [text |-> t,
     cancel_word |-> is_cancel_word(t),
     hr_prefix |-> is_hr_prefix(t),
     cancel_flow_trigger |-> is_cancel_flow_trigger(t),
     quit_trigger |-> is_quit_trigger(t),
     valid_staff_id |-> is_valid_staff_id(t),
     valid_iso_date |-> is_valid_iso_date(t),
     parsed |-> parse_hr_command(t),
     comment |-> comment_of(t),
     answer |-> find_faq(t),
     language |-> detect_language(t)]

\* the guards and the text of each event of the model, evaluated once
Passes == [i \in EventIds |-> passes_guards(Events[i])]

Facts == [i \in EventIds |-> text_facts(user_text(Events[i]))]

has_session(us, uid) == uid # NoUser /\ uid \in DOMAIN us

step_of(us, uid) == Get(us[uid], "step", "")

Q_STEPS == {"Q_WAIT_STAFFID", "Q_WAIT_DATE", "Q_WAIT_REASON", "Q_WAIT_COMMENT", "Q_CONFIRM"}

\* route with the continuation of an open session tested before the HR
\* commands
route_session_first(us, uid, f) ==
    IF has_session(us, uid) /\ f.cancel_word THEN "global_cancel"
    ELSE IF uid # NoUser /\ f.cancel_flow_trigger THEN "cancel_flow_start"
    ELSE IF has_session(us, uid) /\ step_of(us, uid) = "CANCEL_WAIT_STAFFID"
    THEN "CANCEL_WAIT_STAFFID"
    ELSE IF has_session(us, uid) /\ step_of(us, uid) = "CANCEL_CONFIRM"
    THEN "CANCEL_CONFIRM"
    ELSE IF uid # NoUser /\ f.quit_trigger THEN "quit_start"
    ELSE IF has_session(us, uid) /\ step_of(us, uid) \in Q_STEPS
    THEN step_of(us, uid)
    ELSE IF f.hr_prefix THEN "hr_command"
    ELSE "faq"

\* the branch of the webhook that handles the text: the first whose
\* condition holds, in the order of the code
route(us, uid, f) ==
    IF has_session(us, uid) /\ f.cancel_word THEN "global_cancel"
    ELSE IF f.hr_prefix THEN "hr_command"
    ELSE IF uid # NoUser /\ f.cancel_flow_trigger THEN "cancel_flow_start"
    ELSE IF has_session(us, uid) /\ step_of(us, uid) = "CANCEL_WAIT_STAFFID"
    THEN "CANCEL_WAIT_STAFFID"
    ELSE IF has_session(us, uid) /\ step_of(us, uid) = "CANCEL_CONFIRM"
    THEN "CANCEL_CONFIRM"
    ELSE IF uid # NoUser /\ f.quit_trigger THEN "quit_start"
    ELSE IF has_session(us, uid) /\ step_of(us, uid) \in Q_STEPS
    THEN step_of(us, uid)
    ELSE "faq"

\* one call of line_reply: the message template, the values put into it and
\* the quick-reply buttons
Reply(msg, args, quick) == [msg |-> msg, args |-> args, quick |-> quick]

\* one call of call_apps_script: the payload, whether a request was sent,
\* and what the endpoint did with it
Call(payload, response) ==
    [payload |-> payload, sent |-> gateway_called(APPS_SCRIPT_URL),
     response |-> response]

\* the responses to choose from: the endpoint answers only a request sent
ResponsesNow ==
    IF gateway_called(APPS_SCRIPT_URL) THEN GatewayResponses ELSE {[kind |-> "none"]}

NoTyped == [u \in UserIds |-> EmptyDict]

TypedSet(uid, d) == [typed EXCEPT ![uid] = d]

\* the state after one event
Handled(e, us, rep, cl, exc, ty) ==
    /\ pc' = "handled"
    /\ event' = e
    /\ before' = USER_STATE
    /\ USER_STATE' = us
    /\ replies' = rep
    /\ calls' = cl
    /\ raised' = exc
    /\ typed' = ty
    /\ UNCHANGED <<HR_LINE_USER_IDS, APPS_SCRIPT_URL, waiting>>

\* the event number i reaches the branch b
Routed(i, b) ==
    /\ pc = "idle"
    /\ Passes[i]
    /\ route(USER_STATE, Events[i].userId, Facts[i]) = b

\* lines 202-221: the event is skipped
Skip(i) ==
    /\ pc = "idle"
    /\ ~Passes[i]
    /\ Handled(Events[i], USER_STATE, <<>>, <<>>, FALSE, typed)

\* lines 223-227: a cancel word while a session is open
GlobalCancel(i) ==
    /\ Routed(i, "global_cancel")
    /\ Handled(Events[i], Pop(USER_STATE, Events[i].userId),
               <<Reply("CANCELLED", <<>>, <<>>)>>, <<>>, FALSE,
               TypedSet(Events[i].userId, EmptyDict))

hr_payload(uid, parsed) ==
    ("action" :> action_map(parsed.cmd)) @@ ("requestId" :> parsed.req_id)
    @@ ("hrLineUserId" :> uid) @@ ("hrComment" :> parsed.comment)

\* lines 229-258: an HR command
HrCommand(i) ==
    LET uid == Events[i].userId
        parsed == Facts[i].parsed
    IN  /\ Routed(i, "hr_command")
        /\ IF uid = NoUser \/ ~is_hr_user(uid, HR_LINE_USER_IDS)
           THEN Handled(Events[i], USER_STATE, <<Reply("NOT_AUTHORIZED", <<>>, <<>>)>>,
                           <<>>, FALSE, typed)
           ELSE IF ~parsed.ok
           THEN Handled(Events[i], USER_STATE, <<Reply("HR_USAGE", <<>>, <<>>)>>,
                           <<>>, FALSE, typed)
           ELSE \E response \in ResponsesNow :
                  LET result == call_apps_script(APPS_SCRIPT_URL, response)
                  IN  Handled(Events[i], USER_STATE,
                              IF result_raises(result) THEN <<>>
                              ELSE IF result_ok(result)
                              THEN <<Reply("HR_OK", <<parsed.cmd, parsed.req_id>>, <<>>)>>
                              ELSE <<Reply("HR_NG",
                                           <<Get(result.value, "error", <<"None">>),
                                             Get(result.value, "detail", <<>>)>>, <<>>)>>,
                              <<Call(hr_payload(uid, parsed), response)>>,
                              result_raises(result), typed)

\* lines 260-264: a trigger of the cancellation flow
CancelFlowStart(i) ==
    /\ Routed(i, "cancel_flow_start")
    /\ Handled(Events[i], Put(USER_STATE, Events[i].userId, [step |-> "CANCEL_WAIT_STAFFID"]),
               <<Reply("CANCEL_ASK_STAFFID", <<>>, <<>>)>>, <<>>, FALSE,
               TypedSet(Events[i].userId, EmptyDict))

\* lines 266-275: the staff id of the cancellation flow
CancelWaitStaffId(i) ==
    LET uid == Events[i].userId
        f == Facts[i]
        text == Facts[i].text
        st == USER_STATE[uid]
    IN  /\ Routed(i, "CANCEL_WAIT_STAFFID")
        /\ IF ~f.valid_staff_id
           THEN Handled(Events[i], USER_STATE, <<Reply("CANCEL_BAD_STAFFID", <<>>, <<>>)>>,
                        <<>>, FALSE, typed)
           ELSE Handled(Events[i],
                        Put(USER_STATE, uid,
                            Put(Put(st, "staff_id", text), "step", "CANCEL_CONFIRM")),
                        <<Reply("CANCEL_ASK_CONFIRM", <<>>, <<ButtonYes, ButtonNo>>)>>,
                        <<>>, FALSE,
                        TypedSet(uid, Put(typed[uid], "staff_id", text)))

cancel_payload(uid, staff_id) ==
    ("action" :> "cancelLatestQuittingRequest") @@ ("lineUserId" :> uid)
    @@ ("staffId" :> staff_id) @@ ("hrComment" :> <<"Cancelled by staff via LINE">>)

\* lines 277-300: the confirmation of the cancellation flow
CancelConfirm(i) ==
    LET uid == Events[i].userId
        f == Facts[i]
        text == Facts[i].text
        st == USER_STATE[uid]
    IN  /\ Routed(i, "CANCEL_CONFIRM")
        /\ IF text \notin {ButtonYes, ButtonNo}
           THEN Handled(Events[i], USER_STATE, <<Reply("CHOOSE_BUTTON", <<>>, <<>>)>>,
                           <<>>, FALSE, typed)
           ELSE IF text = ButtonNo
           THEN Handled(Events[i], Pop(USER_STATE, uid),
                           <<Reply("CANCEL_NOT_DONE", <<>>, <<>>)>>, <<>>, FALSE,
                           TypedSet(uid, EmptyDict))
           ELSE \E response \in ResponsesNow :
                  LET result == call_apps_script(APPS_SCRIPT_URL, response)
                  IN  Handled(Events[i], Pop(USER_STATE, uid),
                              IF result_raises(result) THEN <<>>
                              ELSE IF result_ok(result)
                              THEN <<Reply("CANCEL_DONE", <<>>, <<>>)>>
                              ELSE <<Reply("CANCEL_FAILED_CONTACT_HR", <<>>, <<>>)>>,
                              <<Call(cancel_payload(uid, Get(st, "staff_id", <<>>)), response)>>,
                              result_raises(result),
                              TypedSet(uid, EmptyDict))

\* lines 302-308: a trigger of the quitting flow
QuitStart(i) ==
    /\ Routed(i, "quit_start")
    /\ Handled(Events[i], Put(USER_STATE, Events[i].userId, [step |-> "Q_WAIT_STAFFID"]),
               <<Reply("Q_ASK_STAFFID", <<>>, <<>>)>>, <<>>, FALSE,
               TypedSet(Events[i].userId, EmptyDict))

\* QWaitStaffId going on to the date without storing the staff id
QWaitStaffId_not_stored(i) ==
    LET uid == Events[i].userId
        st == USER_STATE[uid]
    IN  /\ Routed(i, "Q_WAIT_STAFFID")
        /\ IF ~Facts[i].valid_staff_id
           THEN Handled(Events[i], USER_STATE, <<Reply("Q_BAD_STAFFID", <<>>, <<>>)>>,
                        <<>>, FALSE, typed)
           ELSE Handled(Events[i],
                        Put(USER_STATE, uid, Put(st, "step", "Q_WAIT_DATE")),
                        <<Reply("Q_ASK_DATE", <<>>, <<>>)>>, <<>>, FALSE,
                        TypedSet(uid, Put(typed[uid], "staff_id", Facts[i].text)))

\* lines 314-323: the staff id of the quitting flow
QWaitStaffId(i) ==
    LET uid == Events[i].userId
        f == Facts[i]
        text == Facts[i].text
        st == USER_STATE[uid]
    IN  /\ Routed(i, "Q_WAIT_STAFFID")
        /\ IF ~f.valid_staff_id
           THEN Handled(Events[i], USER_STATE, <<Reply("Q_BAD_STAFFID", <<>>, <<>>)>>,
                        <<>>, FALSE, typed)
           ELSE Handled(Events[i],
                        Put(USER_STATE, uid,
                            Put(Put(st, "staff_id", text), "step", "Q_WAIT_DATE")),
                        <<Reply("Q_ASK_DATE", <<>>, <<>>)>>, <<>>, FALSE,
                        TypedSet(uid, Put(typed[uid], "staff_id", text)))

\* lines 325-336: the quitting date
QWaitDate(i) ==
    LET uid == Events[i].userId
        f == Facts[i]
        text == Facts[i].text
        st == USER_STATE[uid]
    IN  /\ Routed(i, "Q_WAIT_DATE")
        /\ IF ~f.valid_iso_date
           THEN Handled(Events[i], USER_STATE, <<Reply("Q_BAD_DATE", <<>>, <<>>)>>,
                        <<>>, FALSE, typed)
           ELSE Handled(Events[i],
                        Put(USER_STATE, uid,
                            Put(Put(st, "quitting_date", text), "step", "Q_WAIT_REASON")),
                        <<Reply("Q_ASK_REASON", <<>>, REASON_JP \o <<ButtonCancel>>)>>,
                        <<>>, FALSE,
                        TypedSet(uid, Put(typed[uid], "quitting_date", text)))

\* the confirmation summary: the fields read with st[...], and the buttons
summary_reply(st, with_comment) ==
    Reply("Q_SUMMARY",
          <<st["staff_id"], st["quitting_date"], st["reason"]>>
          \o (IF with_comment
              THEN <<IF st["comment"] # <<>> THEN st["comment"] ELSE <<"(none)">> >>
              ELSE <<>>),
          <<ButtonSubmit, ButtonCancel>>)

\* reason_stored without the branch for Other: every reason goes to the
\* confirmation with an empty comment
reason_stored_no_comment_step(st, text) ==
    Put(Put(Put(st, "reason", REASON_MAP[text]), "comment", <<>>), "step", "Q_CONFIRM")

\* the session after a recognized reason button
reason_stored(st, text) ==
    LET reason == REASON_MAP[text]
        st1 == Put(st, "reason", reason)
    IN  IF reason = ReasonOther
        THEN Put(st1, "step", "Q_WAIT_COMMENT")
        ELSE Put(Put(st1, "comment", <<>>), "step", "Q_CONFIRM")

\* lines 338-364: the reason
QWaitReason(i) ==
    LET uid == Events[i].userId
        f == Facts[i]
        text == Facts[i].text
        st == USER_STATE[uid]
    IN  /\ Routed(i, "Q_WAIT_REASON")
        /\ IF text = ButtonCancel \/ f.cancel_word
           THEN Handled(Events[i], Pop(USER_STATE, uid), <<Reply("CANCELLED", <<>>, <<>>)>>,
                        <<>>, FALSE, TypedSet(uid, EmptyDict))
           ELSE IF text \notin DOMAIN REASON_MAP
           THEN Handled(Events[i], USER_STATE, <<Reply("CHOOSE_BUTTON", <<>>, <<>>)>>,
                        <<>>, FALSE, typed)
           ELSE Handled(Events[i],
                        Put(USER_STATE, uid, reason_stored(st, text)),
                        IF REASON_MAP[text] = ReasonOther
                        THEN <<Reply("Q_ASK_COMMENT", <<>>, <<>>)>>
                        ELSE <<summary_reply(reason_stored(st, text), FALSE)>>,
                        <<>>, FALSE,
                        TypedSet(uid, Put(typed[uid], "reason", text)))

\* lines 366-377: the comment
QWaitComment(i) ==
    LET uid == Events[i].userId
        f == Facts[i]
        text == Facts[i].text
        st == USER_STATE[uid]
        st2 == Put(Put(st, "comment", f.comment), "step", "Q_CONFIRM")
    IN  /\ Routed(i, "Q_WAIT_COMMENT")
        /\ Handled(Events[i], Put(USER_STATE, uid, st2),
                   <<summary_reply(st2, TRUE)>>, <<>>, FALSE,
                   TypedSet(uid, Put(typed[uid], "comment", text)))

\* create_payload reading the staff id under the key of the payload
create_payload_wrong_key(uid, st) ==
    ("action" :> "createQuittingRequest") @@ ("lineUserId" :> uid)
    @@ ("staffId" :> Get(st, "staffId", <<>>))
    @@ ("quittingDate" :> Get(st, "quitting_date", <<>>))
    @@ ("reason" :> Get(st, "reason", <<>>))
    @@ ("comment" :> Get(st, "comment", <<>>))

create_payload(uid, st) ==
    ("action" :> "createQuittingRequest") @@ ("lineUserId" :> uid)
    @@ ("staffId" :> Get(st, "staff_id", <<>>))
    @@ ("quittingDate" :> Get(st, "quitting_date", <<>>))
    @@ ("reason" :> Get(st, "reason", <<>>))
    @@ ("comment" :> Get(st, "comment", <<>>))

\* submit_reply reading the identifier under the key id
submit_reply_id_key(result) ==
    IF result_ok(result)
    THEN Reply("Q_RECEIVED", <<Get(result.value, "id", <<>>)>>, <<>>)
    ELSE Reply("Q_ERROR_CONTACT_HR", <<>>, <<>>)

\* the reply to a submission whose result is a dict
submit_reply(result) ==
    IF result_ok(result)
    THEN Reply("Q_RECEIVED", <<Get(result.value, "requestId", <<>>)>>, <<>>)
    ELSE Reply("Q_ERROR_CONTACT_HR", <<>>, <<>>)

\* lines 379-409: the confirmation
QConfirm(i) ==
    LET uid == Events[i].userId
        f == Facts[i]
        text == Facts[i].text
        st == USER_STATE[uid]
    IN  /\ Routed(i, "Q_CONFIRM")
        /\ IF text = ButtonCancel \/ f.cancel_word
           THEN Handled(Events[i], Pop(USER_STATE, uid),
                           <<Reply("CANCELLED", <<>>, <<>>)>>, <<>>, FALSE,
                           TypedSet(uid, EmptyDict))
           ELSE IF text # ButtonSubmit
           THEN Handled(Events[i], USER_STATE, <<Reply("CHOOSE_BUTTON", <<>>, <<>>)>>,
                           <<>>, FALSE, typed)
           ELSE \E response \in ResponsesNow :
                  LET result == call_apps_script(APPS_SCRIPT_URL, response)
                  IN  Handled(Events[i], Pop(USER_STATE, uid),
                              IF result_raises(result) THEN <<>>
                              ELSE <<submit_reply(result)>>,
                              <<Call(create_payload(uid, st), response)>>,
                              result_raises(result), typed)

\* lines 411-419: the FAQ fallback
FaqFallback(i) ==
    LET f == Facts[i]
        text == Facts[i].text
        answer == f.answer
    IN  /\ Routed(i, "faq")
        /\ Handled(Events[i], USER_STATE,
                   IF answer # <<>> /\ answer[1] # <<>>
                   THEN <<Reply("FAQ_ANSWER", <<answer[1]>>, <<>>)>>
                   ELSE IF f.language = "jp"
                   THEN <<Reply("FAQ_FORWARDED_JP", <<>>, <<>>)>>
                   ELSE <<Reply("FAQ_FORWARDED_EN", <<>>, <<>>)>>,
                   <<>>, FALSE, typed)

\* no invocation waits for the endpoint
NoWaiting == [phase |-> "none"]

\* history kept with the waiting invocation: whether the session it submitted
\* has been the sender's session ever since
still_intact(w, us) ==
    IF w.phase = "sent"
    THEN [w EXCEPT !.intact = @ /\ w.uid \in DOMAIN us /\ us[w.uid] = w.st]
    ELSE w

\* line 201: the webhook goes on to the next event
NextEvent ==
    /\ pc = "handled"
    /\ pc' = "idle"
    /\ event' = NoEvent
    /\ before' = EmptyDict
    /\ replies' = <<>>
    /\ calls' = <<>>
    /\ raised' = FALSE
    /\ typed' = [u \in UserIds |-> IF u \in DOMAIN USER_STATE THEN typed[u] ELSE EmptyDict]
    /\ waiting' = still_intact(waiting, USER_STATE)
    /\ UNCHANGED <<USER_STATE, HR_LINE_USER_IDS, APPS_SCRIPT_URL>>

Init ==
    /\ USER_STATE = EmptyDict
    /\ \E env \in Environments :
          /\ HR_LINE_USER_IDS = env[1]
          /\ APPS_SCRIPT_URL = env[2]
    /\ pc = "idle"
    /\ event = NoEvent
    /\ before = EmptyDict
    /\ replies = <<>>
    /\ calls = <<>>
    /\ raised = FALSE
    /\ typed = NoTyped
    /\ waiting = NoWaiting

Next ==
    \/ \E i \in EventIds : Skip(i)
    \/ \E i \in EventIds : GlobalCancel(i)
    \/ \E i \in EventIds : HrCommand(i)
    \/ \E i \in EventIds : CancelFlowStart(i)
    \/ \E i \in EventIds : CancelWaitStaffId(i)
    \/ \E i \in EventIds : CancelConfirm(i)
    \/ \E i \in EventIds : QuitStart(i)
    \/ \E i \in EventIds : QWaitStaffId(i)
    \/ \E i \in EventIds : QWaitDate(i)
    \/ \E i \in EventIds : QWaitReason(i)
    \/ \E i \in EventIds : QWaitComment(i)
    \/ \E i \in EventIds : QConfirm(i)
    \/ \E i \in EventIds : FaqFallback(i)
    \/ NextEvent

Spec == Init /\ [][Next]_vars

(***************************************************************************)
(* Two invocations of the webhook at the same time.  The server of line    *)
(* 424 handles each request in a thread of its own, and USER_STATE (line   *)
(* 127) is shared by the threads without a lock.  A thread gives way where *)
(* it blocks: in the POST of call_apps_script.  The confirmation of the    *)
(* quitting flow is the branch that touches USER_STATE after that wait     *)
(* (line 397); the other branches that call the endpoint have changed      *)
(* USER_STATE before the call (line 287) or do not change it.  So one      *)
(* invocation may wait between line 396 and line 397 while the events of   *)
(* other invocations are handled; the other interleavings of the threads   *)
(* are left out.                                                           *)
(***************************************************************************)

\* the events of the concurrent runs: the first user's direct messages of
\* one quitting flow
ConcurrentTexts ==
    {TxtQuit, TxtStaff, TxtDate, LabelJobChange, ButtonSubmit, TxtCancel}

ConcurrentEventIds ==
    {i \in EventIds : /\ Events[i].source = "user"
                      /\ Events[i].userId = U1
                      /\ Events[i].replyToken
                      /\ Events[i].text \in ConcurrentTexts}

\* lines 379-396: Submit at the confirmation; the payload is built from the
\* session and the request is sent; the invocation waits for the response
SubmitBegin(i) ==
    /\ pc = "idle"
    /\ waiting = NoWaiting
    /\ Routed(i, "Q_CONFIRM")
    /\ Facts[i].text = ButtonSubmit
    /\ gateway_called(APPS_SCRIPT_URL)
    /\ waiting' = [phase |-> "sent", i |-> i, uid |-> Events[i].userId,
                   st |-> USER_STATE[Events[i].userId], intact |-> TRUE]
    /\ UNCHANGED <<USER_STATE, HR_LINE_USER_IDS, APPS_SCRIPT_URL, pc, event,
                   before, replies, calls, raised, typed>>

\* lines 396-409: the response arrives; the invocation removes whatever
\* session the user has now and replies
SubmitEnd ==
    /\ pc = "idle"
    /\ waiting.phase = "sent"
    /\ \E response \in GatewayResponses :
          LET result == call_apps_script(APPS_SCRIPT_URL, response)
          IN  /\ pc' = "handled"
              /\ event' = Events[waiting.i]
              /\ before' = USER_STATE
              /\ USER_STATE' = Pop(USER_STATE, waiting.uid)
              /\ replies' = IF result_raises(result) THEN <<>>
                            ELSE <<submit_reply(result)>>
              /\ calls' = <<Call(create_payload(waiting.uid, waiting.st), response)>>
              /\ raised' = result_raises(result)
              /\ waiting' = NoWaiting
              /\ UNCHANGED <<HR_LINE_USER_IDS, APPS_SCRIPT_URL, typed>>

NextConcurrent ==
    \/ \E i \in ConcurrentEventIds : GlobalCancel(i)
    \/ \E i \in ConcurrentEventIds : QuitStart(i)
    \/ \E i \in ConcurrentEventIds : QWaitStaffId(i)
    \/ \E i \in ConcurrentEventIds : QWaitDate(i)
    \/ \E i \in ConcurrentEventIds : QWaitReason(i)
    \/ \E i \in ConcurrentEventIds : QConfirm(i)
    \/ \E i \in ConcurrentEventIds : SubmitBegin(i)
    \/ SubmitEnd
    \/ NextEvent

SpecConcurrent == Init /\ [][NextConcurrent]_vars

(***************************************************************************)
(* The properties.  They speak of the state reached by handling one event  *)
(* (pc = "handled"): the event, the sessions before and after it, the      *)
(* replies and the gateway calls made for it.  The vocabulary of a         *)
(* property is stated in the property, not taken from the predicates of    *)
(* the code.                                                               *)
(***************************************************************************)

\* an event was handled and it passed the guards of the webhook: a text
\* message with a reply token whose stripped text is not empty and, in a
\* group or room, starts with the activation prefix whatever the case
Processed ==
    /\ pc = "handled"
    /\ event.type = "message"
    /\ event.mtype = "text"
    /\ event.replyToken
    /\ Strip(event.text) # <<>>
    /\ event.source # "user" => StartsWith(Lower(Strip(event.text)), <<"!","h","r">>)

\* the text the router sees: the stripped text, in a group or room without
\* the activation prefix and the white space after it
EffectiveText ==
    IF event.source = "user" THEN Strip(event.text)
    ELSE Strip(SubSeq(Strip(event.text), 4, Len(Strip(event.text))))

Sender == event.userId

\* the sender had an open session in the step s when the event arrived
SenderWasIn(s) ==
    /\ Sender # NoUser
    /\ Sender \in DOMAIN before
    /\ "step" \in DOMAIN before[Sender]
    /\ before[Sender]["step"] = s

IsCancelWordText(t) == Lower(t) \in CANCEL_WORDS

IsAdminPrefixText(t) ==
    \/ StartsWith(Lower(t), <<"a","p","p","r","o","v","e"," ">>)
    \/ StartsWith(Lower(t), <<"r","e","j","e","c","t"," ">>)
    \/ StartsWith(Lower(t), <<"c","a","n","c","e","l"," ">>)

IsFlowTriggerText(t) ==
    Lower(t) \in QUIT_TRIGGERS \cup CANCEL_FLOW_TRIGGERS

\* the text is input of the sender's current step: the router hands it to
\* the step, since it is no cancel word, no admin command and no trigger
IsStepInput(t) ==
    ~IsCancelWordText(t) /\ ~IsAdminPrefixText(t) /\ ~IsFlowTriggerText(t)

IsStaffIdText(t) ==
    Len(t) \in 3..6 /\ \A k \in 1..Len(t) : t[k] \in Digits

IsDateText(t) ==
    /\ Len(t) = 10
    /\ \A k \in {1, 2, 3, 4, 6, 7, 9, 10} : t[k] \in Digits
    /\ t[5] = "-" /\ t[8] = "-"

ReasonLabels == {REASON_JP[k] : k \in 1..Len(REASON_JP)}

ReasonValues == {REASON_MAP[l] : l \in ReasonLabels}

CancelledReply == <<Reply("CANCELLED", <<>>, <<>>)>>

\* C1: a cancel word (exact match whatever the case) processed while the
\* sender has a session in any step of the quitting-request flow removes
\* that session and nothing else, is answered by the cancellation
\* acknowledgment alone, and makes no gateway call.
C1_CancelWordEndsSession ==
    (/\ Processed
     /\ \E s \in Q_STEPS : SenderWasIn(s)
     /\ IsCancelWordText(EffectiveText))
    => /\ Sender \notin DOMAIN USER_STATE
       /\ USER_STATE = Pop(before, Sender)
       /\ replies = CancelledReply
       /\ calls = <<>>
       /\ ~raised

\* a cancel word written in capitals ended a session that waited for the
\* confirmation
C1_Witness ==
    /\ Processed
    /\ SenderWasIn("Q_CONFIRM")
    /\ IsCancelWordText(EffectiveText)
    /\ EffectiveText \notin CANCEL_WORDS
    /\ Sender \notin DOMAIN USER_STATE

IsAdminCall(c) == c.payload["action"] \in ADMIN_ACTIONS

\* the ids of the configured allow-list: the entries between the commas,
\* without surrounding white space, the empty ones dropped
AllowList ==
    LET fields == SplitOn(HR_LINE_USER_IDS, ",")
    IN  {Strip(fields[k]) : k \in 1..Len(fields)} \ {<<>>}

\* C2: every gateway call with an administrative action is made for an
\* event whose sender has an id that is in the allow-list, and names that
\* sender as the actor; with an empty or absent allow-list there is none.
C2_AdminCallOnlyForAllowed ==
    \A k \in 1..Len(calls) :
        IsAdminCall(calls[k])
        => /\ pc = "handled"
           /\ Sender # NoUser
           /\ Sender \in AllowList
           /\ calls[k].payload["hrLineUserId"] = Sender

\* an admin command of a sender with an id, while the allow-list is empty,
\* was answered without a gateway call
C2_Witness ==
    /\ Processed
    /\ IsAdminPrefixText(EffectiveText)
    /\ Sender = U1
    /\ AllowList = {}
    /\ calls = <<>>
    /\ replies = <<Reply("NOT_AUTHORIZED", <<>>, <<>>)>>

\* the fields of a session other than the comment passed their validators
FieldsValid(st) ==
    /\ "staff_id" \in DOMAIN st => IsStaffIdText(st["staff_id"])
    /\ "quitting_date" \in DOMAIN st => IsDateText(st["quitting_date"])
    /\ "reason" \in DOMAIN st => st["reason"] \in ReasonValues

\* C3 as stated: every stored field passed its validator, the comment being
\* at most 300 characters long.
C3_Original ==
    \A u \in DOMAIN USER_STATE :
        /\ FieldsValid(USER_STATE[u])
        /\ "comment" \in DOMAIN USER_STATE[u] => Len(USER_STATE[u]["comment"]) <= 300

\* C3 amended: staff_id is 3 to 6 digits, quitting_date has the shape
\* YYYY-MM-DD, reason is one of the fixed reason values, and comment is free
\* text of any length, never one of the tokens that stand for no comment.
C3_StoredFieldsValid ==
    \A u \in DOMAIN USER_STATE :
        /\ FieldsValid(USER_STATE[u])
        /\ "comment" \in DOMAIN USER_STATE[u]
           => Lower(USER_STATE[u]["comment"]) \notin NONE_TOKENS

\* a session holds all four fields, with a comment of more than 300
\* characters
C3_Witness ==
    \E u \in DOMAIN USER_STATE :
        /\ {"staff_id", "quitting_date", "reason", "comment"} \subseteq DOMAIN USER_STATE[u]
        /\ Len(USER_STATE[u]["comment"]) > 300

\* the text fails the validation of the step s
FailsStep(s, t) ==
    \/ s = "Q_WAIT_STAFFID" /\ ~IsStaffIdText(t)
    \/ s = "Q_WAIT_DATE" /\ ~IsDateText(t)
    \/ s = "Q_WAIT_REASON" /\ t \notin ReasonLabels /\ t # ButtonCancel
    \/ s = "Q_CONFIRM" /\ t # ButtonSubmit /\ t # ButtonCancel

RePrompt(s) ==
    CASE s = "Q_WAIT_STAFFID" -> <<Reply("Q_BAD_STAFFID", <<>>, <<>>)>>
      [] s = "Q_WAIT_DATE" -> <<Reply("Q_BAD_DATE", <<>>, <<>>)>>
      [] s = "Q_WAIT_REASON" -> <<Reply("CHOOSE_BUTTON", <<>>, <<>>)>>
      [] s = "Q_CONFIRM" -> <<Reply("CHOOSE_BUTTON", <<>>, <<>>)>>

\* C4: an input of the current step (a text the router hands to the step)
\* that fails the step's validation is answered by the step's re-prompt
\* alone and leaves every session as it was, with no gateway call.
C4_InvalidInputKeepsSession ==
    \A s \in {"Q_WAIT_STAFFID", "Q_WAIT_DATE", "Q_WAIT_REASON", "Q_CONFIRM"} :
        (/\ Processed
         /\ SenderWasIn(s)
         /\ IsStepInput(EffectiveText)
         /\ FailsStep(s, EffectiveText))
        => /\ USER_STATE = before
           /\ replies = RePrompt(s)
           /\ calls = <<>>
           /\ ~raised

\* the date 31-03-2026 was refused while the session waited for the date
C4_Witness ==
    /\ Processed
    /\ SenderWasIn("Q_WAIT_DATE")
    /\ EffectiveText = <<"3","1","-","0","3","-","2","0","2","6">>
    /\ USER_STATE = before
    /\ "staff_id" \in DOMAIN USER_STATE[Sender]

\* the endpoint received the request and answered with a JSON object whose
\* ok is true
Succeeded(c) ==
    /\ c.sent
    /\ c.response.kind = "json"
    /\ c.response.isdict
    /\ "ok" \in DOMAIN c.response.value
    /\ c.response.value["ok"] = TRUE

IsSubmission(c) ==
    c.payload["action"] \in {"createQuittingRequest", "cancelLatestQuittingRequest"}

ContactHrReply(c) ==
    IF c.payload["action"] = "createQuittingRequest"
    THEN <<Reply("Q_ERROR_CONTACT_HR", <<>>, <<>>)>>
    ELSE <<Reply("CANCEL_FAILED_CONTACT_HR", <<>>, <<>>)>>

\* C5: after a submission was attempted (from the confirmation of either
\* flow) the sender has no session, whatever the gateway did, and unless
\* the gateway succeeded the sender is sent the contact-HR message.
C5_Claim ==
    \A k \in 1..Len(calls) :
        IsSubmission(calls[k])
        => /\ Sender \notin DOMAIN USER_STATE
           /\ ~Succeeded(calls[k]) => replies = ContactHrReply(calls[k])

\* C6: Submit at the confirmation of a flow with a reason other than Other
\* makes one gateway call, createQuittingRequest, with the sender's id and the
\* staff id, date and reason this flow accepted from the sender, and removes
\* the session; and createQuittingRequest is called for nothing else.
C6_SubmitCallsOnce ==
    /\ (/\ Processed
        /\ SenderWasIn("Q_CONFIRM")
        /\ EffectiveText = ButtonSubmit
        /\ typed[Sender]["reason"] # LabelOther)
       => /\ Len(calls) = 1
          /\ calls[1].payload =
                ("action" :> "createQuittingRequest")
                @@ ("lineUserId" :> Sender)
                @@ ("staffId" :> typed[Sender]["staff_id"])
                @@ ("quittingDate" :> typed[Sender]["quitting_date"])
                @@ ("reason" :> REASON_MAP[typed[Sender]["reason"]])
                @@ ("comment" :> <<>>)
          /\ Sender \notin DOMAIN USER_STATE
    /\ \A k \in 1..Len(calls) :
          calls[k].payload["action"] = "createQuittingRequest"
          => /\ Processed
             /\ SenderWasIn("Q_CONFIRM")
             /\ EffectiveText = ButtonSubmit
             /\ Len(calls) = 1

\* the flow of staff id 2338, date 2026-03-31 and job change was submitted
\* and the gateway succeeded
C6_Witness ==
    /\ Processed
    /\ SenderWasIn("Q_CONFIRM")
    /\ EffectiveText = ButtonSubmit
    /\ Len(calls) = 1
    /\ calls[1].payload["staffId"] = <<"2","3","3","8">>
    /\ calls[1].payload["quittingDate"] = <<"2","0","2","6","-","0","3","-","3","1">>
    /\ calls[1].payload["reason"] = <<"J","o","b"," ","c","h","a","n","g","e">>
    /\ Succeeded(calls[1])
    /\ Sender \notin DOMAIN USER_STATE

OrdinalTexts == << <<"1">>, <<"2">>, <<"3">>, <<"4">>, <<"5">>, <<"6">> >>

\* the session of the sender after the reason of the label l was accepted
AfterReason(l) ==
    /\ Sender \in DOMAIN USER_STATE
    /\ \A f \in DOMAIN before[Sender] \ {"step"} :
          f \in DOMAIN USER_STATE[Sender] /\ USER_STATE[Sender][f] = before[Sender][f]
    /\ "reason" \in DOMAIN USER_STATE[Sender]
    /\ USER_STATE[Sender]["reason"] = REASON_MAP[l]
    /\ IF l = LabelOther
       THEN /\ USER_STATE[Sender]["step"] = "Q_WAIT_COMMENT"
            /\ "comment" \notin DOMAIN USER_STATE[Sender]
       ELSE /\ USER_STATE[Sender]["step"] = "Q_CONFIRM"
            /\ "comment" \in DOMAIN USER_STATE[Sender]
            /\ USER_STATE[Sender]["comment"] = <<>>

C7_WitnessLabel ==
    /\ Processed
    /\ SenderWasIn("Q_WAIT_REASON")
    /\ EffectiveText = LabelOther
    /\ USER_STATE[Sender]["step"] = "Q_WAIT_COMMENT"

\* a text message of a group or a room whose text, surrounding white space
\* aside, does not start with the activation prefix, whatever the case
UnprefixedGroupMessage ==
    /\ pc = "handled"
    /\ event.type = "message"
    /\ event.mtype = "text"
    /\ event.source \in {"group", "room"}
    /\ ~StartsWith(Lower(Strip(event.text)), <<"!","h","r">>)

\* C8: a group or room message without the activation prefix has no effect:
\* no reply, no gateway call, and every session as it was.
C8_UnprefixedGroupMessageIgnored ==
    UnprefixedGroupMessage
    => /\ replies = <<>>
       /\ calls = <<>>
       /\ USER_STATE = before
       /\ ~raised

\* a cancel word without the prefix arrived from a group while the sender
\* had a session
C8_Witness ==
    /\ UnprefixedGroupMessage
    /\ Lower(Strip(event.text)) \in CANCEL_WORDS
    /\ Sender \in DOMAIN before
    /\ USER_STATE = before

\* C9: a group or room message that is exactly the activation prefix is
\* discarded: no reply, no gateway call, and every session as it was.
C9_Claim ==
    (/\ pc = "handled"
     /\ event.type = "message"
     /\ event.mtype = "text"
     /\ event.source \in {"group", "room"}
     /\ Lower(event.text) = <<"!","h","r">>)
    => /\ replies = <<>>
       /\ calls = <<>>
       /\ USER_STATE = before

\* the sender's session holds every field it held before, with its value
FieldsKept ==
    /\ Sender \in DOMAIN USER_STATE
    /\ \A f \in DOMAIN before[Sender] \ {"step"} :
          f \in DOMAIN USER_STATE[Sender] /\ USER_STATE[Sender][f] = before[Sender][f]

\* C10: an event processed while the sender has a session leaves the session
\* with every field collected so far, or removes it; and a session is created
\* (by a trigger of either flow) only for a sender that has none.
C10_Claim ==
    /\ (Processed /\ Sender # NoUser /\ Sender \in DOMAIN before)
       => (Sender \notin DOMAIN USER_STATE \/ FieldsKept)
    /\ (/\ Processed
        /\ Sender # NoUser
        /\ Sender \in DOMAIN before
        /\ Lower(EffectiveText) \in QUIT_TRIGGERS)
       => (Sender \notin DOMAIN USER_STATE \/ USER_STATE[Sender] = before[Sender])

\* C11: a trigger phrase of the cancellation flow, processed while the
\* sender has a session of the quitting-request flow, leaves that session as
\* it was: the same step and the same collected fields.
C11_Claim ==
    (/\ Processed
     /\ \E s \in Q_STEPS : SenderWasIn(s)
     /\ Lower(EffectiveText) \in CANCEL_FLOW_TRIGGERS)
    => /\ Sender \in DOMAIN USER_STATE
       /\ USER_STATE[Sender] = before[Sender]

\* the rule of the fixed order that matches the text first, for a sender
\* with or without an open session
Intent(t, open) ==
    IF open /\ IsCancelWordText(t) THEN "Cancel"
    ELSE IF IsAdminPrefixText(t) THEN "AdminCommand"
    ELSE IF IsFlowTriggerText(t) THEN "FlowStart"
    ELSE IF open THEN "Continuation"
    ELSE "FreeText"

\* the messages a step answers with
StepReplies(s) ==
    CASE s = "Q_WAIT_STAFFID" -> {"Q_BAD_STAFFID", "Q_ASK_DATE"}
      [] s = "Q_WAIT_DATE" -> {"Q_BAD_DATE", "Q_ASK_REASON"}
      [] s = "Q_WAIT_REASON" -> {"CANCELLED", "CHOOSE_BUTTON", "Q_ASK_COMMENT", "Q_SUMMARY"}
      [] s = "Q_WAIT_COMMENT" -> {"Q_SUMMARY"}
      [] s = "Q_CONFIRM" -> {"CANCELLED", "CHOOSE_BUTTON", "Q_RECEIVED", "Q_ERROR_CONTACT_HR"}
      [] s = "CANCEL_WAIT_STAFFID" -> {"CANCEL_BAD_STAFFID", "CANCEL_ASK_CONFIRM"}
      [] s = "CANCEL_CONFIRM" ->
            {"CHOOSE_BUTTON", "CANCEL_NOT_DONE", "CANCEL_DONE", "CANCEL_FAILED_CONTACT_HR"}
      [] OTHER -> {}

\* what the webhook did with the event is what the rule k asks for
HandledAs(k) ==
    CASE k = "Cancel" ->
            /\ replies = CancelledReply
            /\ USER_STATE = Pop(before, Sender)
            /\ calls = <<>>
      [] k = "AdminCommand" ->
            /\ USER_STATE = before
            /\ \/ /\ Len(replies) = 1
                  /\ replies[1].msg \in {"NOT_AUTHORIZED", "HR_USAGE", "HR_OK", "HR_NG"}
               \/ /\ Len(calls) = 1
                  /\ IsAdminCall(calls[1])
      [] k = "FlowStart" ->
            /\ calls = <<>>
            /\ Sender \in DOMAIN USER_STATE
            /\ IF Lower(EffectiveText) \in QUIT_TRIGGERS
               THEN /\ USER_STATE[Sender] = [step |-> "Q_WAIT_STAFFID"]
                    /\ replies = <<Reply("Q_ASK_STAFFID", <<>>, <<>>)>>
               ELSE /\ USER_STATE[Sender] = [step |-> "CANCEL_WAIT_STAFFID"]
                    /\ replies = <<Reply("CANCEL_ASK_STAFFID", <<>>, <<>>)>>
      [] k = "Continuation" ->
            \/ /\ Len(replies) = 1
               /\ replies[1].msg \in StepReplies(before[Sender]["step"])
            \/ /\ Len(calls) = 1
               /\ IsSubmission(calls[1])
      [] k = "FreeText" ->
            /\ USER_STATE = before
            /\ calls = <<>>
            /\ Len(replies) = 1
            /\ replies[1].msg \in {"FAQ_ANSWER", "FAQ_FORWARDED_JP", "FAQ_FORWARDED_EN"}

\* C12: every processed message of a sender with an id is handled by the
\* first rule that matches in the order: cancel word with an open session,
\* admin-command prefix, flow-start trigger, continuation of the open
\* session, free text; whatever the session of the sender (none, a step of
\* the quitting-request flow, a step of the cancellation flow).
C12_Claim ==
    (Processed /\ Sender # NoUser)
    => HandledAs(Intent(EffectiveText, Sender \in DOMAIN before))

\* the event made a gateway call that creates a quitting request
CreatesRequest ==
    /\ pc = "handled"
    /\ Len(calls) = 1
    /\ calls[1].payload["action"] = "createQuittingRequest"

\* C13: two events of one user handled at the same time have the outcome of
\* handling them one after the other.  In particular: while a Submit of a
\* session waits on the gateway, a second Submit for that same session makes
\* no second gateway call; and the completion of a submission does not
\* delete a session the user started while the submission was waiting (a
\* session that is in another step than the confirmation).
C13_Claim ==
    /\ (/\ Processed
        /\ waiting.phase = "sent"
        /\ waiting.intact
        /\ Sender = waiting.uid
        /\ SenderWasIn("Q_CONFIRM")
        /\ EffectiveText = ButtonSubmit)
       => calls = <<>>
    /\ (/\ CreatesRequest
        /\ Sender \in DOMAIN before
        /\ before[Sender]["step"] # "Q_CONFIRM")
       => /\ Sender \in DOMAIN USER_STATE
          /\ USER_STATE[Sender] = before[Sender]

\* the comment stored for what the user typed at the comment step
EnteredComment(ty) ==
    IF "comment" \notin DOMAIN ty THEN <<>>
    ELSE IF Lower(ty["comment"]) \in NONE_TOKENS THEN <<>>
    ELSE ty["comment"]

\* the session st holds, field by field, what its user typed in this flow
HoldsOnly(st, ty) ==
    /\ "staff_id" \in DOMAIN st =>
          "staff_id" \in DOMAIN ty /\ st["staff_id"] = ty["staff_id"]
    /\ "quitting_date" \in DOMAIN st =>
          "quitting_date" \in DOMAIN ty /\ st["quitting_date"] = ty["quitting_date"]
    /\ "reason" \in DOMAIN st =>
          "reason" \in DOMAIN ty /\ st["reason"] = REASON_MAP[ty["reason"]]
    /\ "comment" \in DOMAIN st => st["comment"] = EnteredComment(ty)

\* C14: with the events of two users handled in any order, an event leaves
\* the session of every user other than its sender as it was (present or
\* absent, with the same step and fields); every session holds only what its
\* own user entered; and a submission names its sender and carries the staff
\* id, date, reason and comment this sender entered.
C14_UsersIsolated ==
    /\ pc = "handled" =>
          \A u \in UserIds \ {Sender} :
              /\ u \in DOMAIN USER_STATE <=> u \in DOMAIN before
              /\ u \in DOMAIN before => USER_STATE[u] = before[u]
    /\ \A u \in DOMAIN USER_STATE : HoldsOnly(USER_STATE[u], typed[u])
    /\ CreatesRequest =>
          /\ Sender \in UserIds
          /\ calls[1].payload["lineUserId"] = Sender
          /\ calls[1].payload["staffId"] = typed[Sender]["staff_id"]
          /\ calls[1].payload["quittingDate"] = typed[Sender]["quitting_date"]
          /\ calls[1].payload["reason"] = REASON_MAP[typed[Sender]["reason"]]
          /\ calls[1].payload["comment"] = EnteredComment(typed[Sender])

\* the second user submitted its own staff id and date while the first user
\* had a session holding another staff id, which stayed as it was
C14_Witness ==
    /\ CreatesRequest
    /\ Sender = U2
    /\ calls[1].payload["staffId"] = <<"1","2","3","4","5","6">>
    /\ calls[1].payload["quittingDate"] = <<"2","0","2","7","-","1","2","-","0","1">>
    /\ U1 \in DOMAIN before
    /\ "staff_id" \in DOMAIN before[U1]
    /\ before[U1]["staff_id"] = <<"2","3","3","8">>
    /\ U1 \in DOMAIN USER_STATE
    /\ USER_STATE[U1] = before[U1]
    /\ U2 \notin DOMAIN USER_STATE

\* the sender of the event may not issue admin commands: it has no id, or
\* its id is not on the allow-list
Unauthorized == Sender = NoUser \/ Sender \notin AllowList

\* C15: an admin command (a text that starts with approve, reject or cancel
\* and a space, whatever the case) of an unauthorized sender is answered by
\* the not-authorized message alone, makes no gateway call, and leaves every
\* session as it was, whatever session the sender has.
C15_UnauthorizedChangesNothing ==
    (/\ Processed
     /\ IsAdminPrefixText(EffectiveText)
     /\ Unauthorized)
    => /\ replies = <<Reply("NOT_AUTHORIZED", <<>>, <<>>)>>
       /\ USER_STATE = before
       /\ calls = <<>>
       /\ ~raised

\* with a non-empty allow-list, a sender that is not on it sent an admin
\* command while its session waited for the confirmation, and kept it
C15_Witness ==
    /\ Processed
    /\ IsAdminPrefixText(EffectiveText)
    /\ AllowList # {}
    /\ Sender # NoUser
    /\ Unauthorized
    /\ SenderWasIn("Q_CONFIRM")
    /\ replies = <<Reply("NOT_AUTHORIZED", <<>>, <<>>)>>
    /\ USER_STATE = before

\* the submission of the event succeeded
SubmissionSucceeded == CreatesRequest /\ Succeeded(calls[1])

\* the reply of a received request that shows the identifier rid
ReceivedReply(rid) == <<Reply("Q_RECEIVED", <<rid>>, <<>>)>>

C17_Claim ==
    (/\ Processed
     /\ Sender # NoUser
     /\ Sender \notin DOMAIN before
     /\ Lower(EffectiveText) \in CANCEL_FLOW_TRIGGERS)
    => /\ USER_STATE = Put(before, Sender, [step |-> "CANCEL_WAIT_STAFFID"])
       /\ replies = <<Reply("CANCEL_ASK_STAFFID", <<>>, <<>>)>>
       /\ calls = <<>>

\* the language detected for a text: Japanese when it has a character of
\* the Japanese script, English otherwise
Language(t) == IF \E k \in 1..Len(t) : t[k] \in JpChars THEN "jp" ELSE "en"

\* the keys of a table entry: the parts between the commas, trimmed, the
\* empty ones left out
EntryKeys(e) ==
    LET parts == SplitOn(e.key, ",")
    IN  {Strip(parts[k]) : k \in 1..Len(parts)} \ {<<>>}

\* the question of a table entry in a language, case-folded and trimmed
EntryQuestion(e, lang) == Strip(Lower(IF lang = "jp" THEN e.jp_q ELSE e.en_q))

\* the entry satisfies one of the two tests for the text: a key of it, or
\* else its question in the detected language (if it has one), is contained
\* in the case-folded text
EntryAnswers(e, t) ==
    \/ \E key \in EntryKeys(e) : Contains(Lower(t), key)
    \/ /\ EntryQuestion(e, Language(t)) # <<>>
       /\ Contains(Lower(t), EntryQuestion(e, Language(t)))

\* the resolution of a text over the table: << >> for none, else the answer,
\* in the detected language, of the earliest entry that satisfies a test
Resolution(t) ==
    LET hits == {k \in 1..Len(FAQ) : EntryAnswers(FAQ[k], t)}
    IN  IF hits = {} THEN <<>>
        ELSE LET first == CHOOSE k \in hits : \A j \in hits : k <= j
             IN  << IF Language(t) = "jp" THEN FAQ[first].jp_a ELSE FAQ[first].en_a >>

\* the reply of the FAQ fallback for a resolution: the answer, or without an
\* answer the message that the question is forwarded, in the language of
\* the text
ResolutionReply(t) ==
    IF Resolution(t) # <<>> /\ Resolution(t)[1] # <<>>
    THEN <<Reply("FAQ_ANSWER", <<Resolution(t)[1]>>, <<>>)>>
    ELSE IF Language(t) = "jp"
    THEN <<Reply("FAQ_FORWARDED_JP", <<>>, <<>>)>>
    ELSE <<Reply("FAQ_FORWARDED_EN", <<>>, <<>>)>>

\* the processed text is free text: the sender has no session and the text is
\* no admin command and, for a sender with an id, no flow trigger
FreeTextEvent ==
    /\ Processed
    /\ Sender = NoUser \/ Sender \notin DOMAIN before
    /\ ~IsAdminPrefixText(EffectiveText)
    /\ Sender # NoUser => ~IsFlowTriggerText(EffectiveText)

\* C18: free text is answered by the FAQ resolution of the text and by
\* nothing else: the answer, in the detected language, of the earliest table
\* entry one of whose non-empty keys, or else whose question in that
\* language, is contained in the case-folded text, and the forwarding
\* message when there is none.  The reply is a function of the text and the
\* table alone, and the resolution makes no gateway call and leaves every
\* session as it was.
C18_FaqResolution ==
    FreeTextEvent
    => /\ replies = ResolutionReply(EffectiveText)
       /\ USER_STATE = before
       /\ calls = <<>>
       /\ ~raised

\* a text that holds the question of the first entry and a key of a later
\* entry was answered with the answer of the first entry, while another
\* user had a session
C18_Witness ==
    /\ FreeTextEvent
    /\ EffectiveText = <<"W","h","e","n"," ","p","a","i","d"," ","p","a","y","s","l","i","p">>
    /\ replies = <<Reply("FAQ_ANSWER", << <<"a","n","s","E","1">> >>, <<>>)>>
    /\ DOMAIN before # {}
    /\ USER_STATE = before

\* C19: an event that passes the guards (a text message with a reply token,
\* a non-empty text and, in a group or room, the activation prefix) is
\* answered by exactly one reply call, on every path; an event that does not
\* pass them is answered by none.
C19_Claim ==
    pc = "handled"
    => IF Processed THEN Len(replies) = 1 ELSE replies = <<>>

\* the fields a session must hold in a step
FieldsOfStep(s) ==
    CASE s = "Q_WAIT_DATE" -> {"staff_id"}
      [] s = "Q_WAIT_REASON" -> {"staff_id", "quitting_date"}
      [] s = "Q_WAIT_COMMENT" -> {"staff_id", "quitting_date", "reason"}
      [] s = "Q_CONFIRM" -> {"staff_id", "quitting_date", "reason", "comment"}
      [] s = "CANCEL_CONFIRM" -> {"staff_id"}
      [] OTHER -> {}

\* C20: in every state every session has a step and holds the fields of the
\* steps before it: the staff id when it waits for the date; the staff id
\* and the date when it waits for the reason; these and the reason Other
\* when it waits for the comment; all four fields when it waits for the
\* confirmation, the comment being non-empty only with the reason Other; the
\* staff id when the cancellation flow waits for its confirmation.  So a
\* submission is built from a session that holds every field it reads.
C20_StepDeterminesFields ==
    /\ \A u \in DOMAIN USER_STATE :
          LET st == USER_STATE[u]
          IN  /\ "step" \in DOMAIN st
              /\ FieldsOfStep(st["step"]) \subseteq DOMAIN st
              /\ st["step"] = "Q_WAIT_COMMENT" => st["reason"] = ReasonOther
              /\ (st["step"] = "Q_CONFIRM" /\ st["comment"] # <<>>)
                 => st["reason"] = ReasonOther
    /\ \A k \in 1..Len(calls) :
          IsSubmission(calls[k])
          => /\ Sender \in DOMAIN before
             /\ "step" \in DOMAIN before[Sender]
             /\ FieldsOfStep(before[Sender]["step"]) \subseteq DOMAIN before[Sender]
             /\ FieldsOfStep(before[Sender]["step"]) # {}

\* a session waits for the confirmation with the reason Other and a comment
\* that is not empty
C20_Witness ==
    \E u \in DOMAIN USER_STATE :
        /\ USER_STATE[u]["step"] = "Q_CONFIRM"
        /\ {"staff_id", "quitting_date", "reason", "comment"} \subseteq DOMAIN USER_STATE[u]
        /\ USER_STATE[u]["reason"] = ReasonOther
        /\ USER_STATE[u]["comment"] # <<>>
        /\ Len(USER_STATE[u]["comment"]) < 10

=============================================================================
